---- MODULE Spec2Model ----
(***************************************************************************)
(* Model of the 24fire command-line client (src/main.py, src/launcher.py). *)
(*                                                                         *)
(* A string is a sequence of characters (one-character TLA+ strings, or a  *)
(* single opaque token where only equality matters).  An optional value    *)
(* (Python None or a value) is a sequence of length 0 or 1.                *)
(***************************************************************************)
EXTENDS Integers, Sequences, FiniteSets, TLC

(***************************************************************************)
(* Bounds of the model.                                                    *)
(***************************************************************************)
\* command-line arguments plus environment settings given to one invocation
MaxInputs == 3
\* records in the service list the server answers with
MaxServices == 2
\* arguments, environment settings and service records together
MaxWorld == 4
\* characters in a --add / --edit value
MaxArgLen == 3
\* characters in a --add / --edit value where only the DNS commands are run
MaxValueLen == 5
\* backups in the answer to a backup listing
MaxBackups == 2

(***************************************************************************)
(* Values.                                                                 *)
(***************************************************************************)
NoArg == << >>
Some(v) == << v >>

\* Python truthiness of an optional string: None and "" are falsy
Truthy(o) == o # NoArg /\ o[1] # << >>

EmptyStr == << >>
IdA == << "a" >>
IdB == << "b" >>
Idents == {IdA, IdB}
KeyFlag == << "k1" >>
KeyEnv == << "k2" >>
NoneKey == << "None" >>
\* Python's None where a string is expected
PyNone == << "<None>" >>
BackupId == << "bk" >>
RecordId == << "r1" >>
Alphabet == {",", "a"}

SeqsUpTo(S, n) == UNION {[1..k -> S] : k \in 0..n}

CliStrings == SeqsUpTo(Alphabet, MaxArgLen)

\* longer values, with blanks, for the runs of -dns add and -dns edit alone
ValueAlphabet == {",", "a", " "}
ValueStrings == SeqsUpTo(ValueAlphabet, MaxValueLen)

\* the keys of the 'services' object: the three types the client knows and one
\* it does not
ServiceTypes == {"KVM", "WEBSPACE", "DOMAIN", "OTHER"}
TypeOrder == << "KVM", "WEBSPACE", "DOMAIN", "OTHER" >>

RawRecord == [name : Idents, internal_id : Idents]

\* the 'services' object of a well-formed /account/services body
NumRecords(d) == Len(d["KVM"]) + Len(d["WEBSPACE"]) + Len(d["DOMAIN"]) + Len(d["OTHER"])

ServiceDicts ==
    {d \in [ServiceTypes -> SeqsUpTo(RawRecord, MaxServices)] :
        NumRecords(d) <= MaxServices}

(***************************************************************************)
(* argparse namespace (main.py 1435-1488).                                 *)
(***************************************************************************)
NoArgs ==
    [api_key |-> NoArg, start |-> NoArg, stop |-> NoArg, restart |-> NoArg,
     backup |-> NoArg, target |-> NoArg, backup_id |-> NoArg,
     traffic |-> NoArg, monitoring |-> NoArg, ddos |-> FALSE,
     install |-> FALSE, dns |-> NoArg, remove |-> NoArg, add |-> NoArg,
     edit |-> NoArg]

\* values an identifier flag is given on the command line
IdentVals == {EmptyStr, IdA}

\* the namespaces obtained from a by giving one more argument
OneMore(a) ==
    LET opt(f, vals) == IF a[f] = NoArg
                        THEN {[a EXCEPT ![f] = Some(v)] : v \in vals} ELSE {}
        flag(f) == IF a[f] = FALSE THEN {[a EXCEPT ![f] = TRUE]} ELSE {}
    IN  opt("api_key", {EmptyStr, KeyFlag})
        \cup opt("start", IdentVals) \cup opt("stop", IdentVals)
        \cup opt("restart", IdentVals)
        \cup opt("backup", {"list", "create", "restore", "delete"})
        \cup opt("target", IdentVals)
        \cup (IF a.backup # NoArg THEN opt("backup_id", {EmptyStr, BackupId}) ELSE {})
        \cup opt("traffic", {"usage", "logs"})
        \cup opt("monitoring", {"reading", "outages"})
        \cup flag("ddos") \cup flag("install")
        \cup opt("dns", {"", "add", "edit", "remove"})
        \cup (IF a.dns = Some("remove") THEN opt("remove", {EmptyStr, RecordId}) ELSE {})
        \cup (IF a.dns = Some("add") THEN opt("add", CliStrings) ELSE {})
        \cup (IF a.dns = Some("edit") THEN opt("edit", CliStrings) ELSE {})

RECURSIVE ArgSets(_)
ArgSets(n) ==
    IF n = 0 THEN {NoArgs}
    ELSE LET prev == ArgSets(n - 1)
         IN  prev \cup UNION {OneMore(a) : a \in prev}

NumGiven(a) ==
    Cardinality({f \in {"api_key", "start", "stop", "restart", "backup", "target",
                        "backup_id", "traffic", "monitoring", "dns", "remove",
                        "add", "edit"} : a[f] # NoArg})
    + (IF a.ddos THEN 1 ELSE 0) + (IF a.install THEN 1 ELSE 0)

EnvVals == {NoArg, Some(EmptyStr), Some(KeyEnv)}

NumInputs(a, e) == NumGiven(a) + (IF e = NoArg THEN 0 ELSE 1)

(***************************************************************************)
(* String helpers of the Python runtime used by the dispatcher.            *)
(***************************************************************************)
\* str.split(sep, maxsplit): cut at the leftmost separators, at most maxsplit times
RECURSIVE split(_, _, _)
split(s, sep, maxsplit) ==
    LET idx == {i \in 1..Len(s) : s[i] = sep}
    IN  IF maxsplit = 0 \/ idx = {} THEN << s >>
        ELSE LET i == CHOOSE k \in idx : \A j \in idx : k <= j
             IN  << SubSeq(s, 1, i - 1) >>
                 \o split(SubSeq(s, i + 1, Len(s)), sep, maxsplit - 1)

RECURSIVE lstrip(_)
lstrip(s) == IF s # << >> /\ s[1] = " " THEN lstrip(Tail(s)) ELSE s

RECURSIVE rstrip(_)
rstrip(s) ==
    IF s # << >> /\ s[Len(s)] = " " THEN rstrip(SubSeq(s, 1, Len(s) - 1)) ELSE s

\* str.strip()
strip(s) == rstrip(lstrip(s))

(***************************************************************************)
(* API key resolution.                                                     *)
(***************************************************************************)
\* faulty variant: the environment variable is consulted before the flag
ApiKeyOr_env_first(a, e) ==
    IF Truthy(e) THEN e[1]
    ELSE IF Truthy(a.api_key) THEN a.api_key[1]
    ELSE NoneKey

\* args.api_key or os.getenv("FIRE_API_KEY") or "None"   (main.py 1492, 1505, ...)
ApiKeyOr(a, e) ==
    IF Truthy(a.api_key) THEN a.api_key[1]
    ELSE IF Truthy(e) THEN e[1]
    ELSE NoneKey

\* the tail of get_api_key, reached when no action flag is given (main.py 1622-1630)
ApiKeyReturn(a, e) ==
    IF Truthy(a.api_key) THEN a.api_key[1]
    ELSE IF Truthy(e) THEN e[1]
    ELSE NoneKey

(***************************************************************************)
(* Service Directory.                                                      *)
(***************************************************************************)
NoRec == << >>
EmptyDict == [t \in ServiceTypes |-> << >>]

\* answers to GET /account/services: 200 with a well-formed body, another status
\* with a JSON body (http) or without (httpraw), a transport exception, and a 200
\* whose body is not JSON or not of the expected shape
ServicesResponses ==
    {[kind |-> "ok", services |-> d] : d \in ServiceDicts}
    \cup {[kind |-> k, services |-> EmptyDict] :
             k \in {"http", "httpraw", "neterr", "badjson"}}

\* the for-loop of find_kvm_server / find_domain: first record matching by name or id
RECURSIVE ScanFrom(_, _, _, _)
ScanFrom(list, x, i, type) ==
    IF i > Len(list) THEN NoRec
    ELSE IF list[i].name = x \/ list[i].internal_id = x
         THEN Some([name |-> list[i].name, internal_id |-> list[i].internal_id,
                    type |-> type])
         ELSE ScanFrom(list, x, i + 1, type)

\* faulty variant: the scan keeps going and the last matching record wins
RECURSIVE ScanLast(_, _, _, _)
ScanLast(list, x, i, type) ==
    IF i < 1 THEN NoRec
    ELSE IF list[i].name = x \/ list[i].internal_id = x
         THEN Some([name |-> list[i].name, internal_id |-> list[i].internal_id,
                    type |-> type])
         ELSE ScanLast(list, x, i - 1, type)

find_kvm_server_last(resp, server_identifier) ==
    IF resp.kind # "ok" THEN NoRec
    ELSE ScanLast(resp.services["KVM"], server_identifier,
                  Len(resp.services["KVM"]), "KVM")

\* faulty variant: a failed lookup yields a record made of the identifier
find_kvm_server_blind(resp, server_identifier) ==
    IF resp.kind # "ok"
    THEN Some([name |-> server_identifier, internal_id |-> server_identifier,
               type |-> "KVM"])
    ELSE ScanFrom(resp.services["KVM"], server_identifier, 1, "KVM")

\* faulty variant: the scan runs over the records of every type
find_kvm_server_any(resp, server_identifier) ==
    IF resp.kind # "ok" THEN NoRec
    ELSE ScanFrom(resp.services["KVM"] \o resp.services["WEBSPACE"]
                  \o resp.services["DOMAIN"], server_identifier, 1, "KVM")

find_kvm_server(resp, server_identifier) ==
    IF resp.kind # "ok" THEN NoRec
    ELSE ScanFrom(resp.services["KVM"], server_identifier, 1, "KVM")

\* faulty variant: the comparison with internal_id is missing
RECURSIVE ScanNames(_, _, _, _)
ScanNames(list, x, i, type) ==
    IF i > Len(list) THEN NoRec
    ELSE IF list[i].name = x
         THEN Some([name |-> list[i].name, internal_id |-> list[i].internal_id,
                    type |-> type])
         ELSE ScanNames(list, x, i + 1, type)

find_domain_by_name(resp, domain_identifier) ==
    IF resp.kind # "ok" THEN NoRec
    ELSE ScanNames(resp.services["DOMAIN"], domain_identifier, 1, "DOMAIN")

\* faulty variant: the last matching domain wins
find_domain_last(resp, domain_identifier) ==
    IF resp.kind # "ok" THEN NoRec
    ELSE ScanLast(resp.services["DOMAIN"], domain_identifier,
                  Len(resp.services["DOMAIN"]), "DOMAIN")

find_domain(resp, domain_identifier) ==
    IF resp.kind # "ok" THEN NoRec
    ELSE ScanFrom(resp.services["DOMAIN"], domain_identifier, 1, "DOMAIN")

\* extract_services: flatten the typed lists, tagging each record with its type
RECURSIVE ExtractFrom(_, _)
ExtractFrom(d, k) ==
    IF k > Len(TypeOrder) THEN << >>
    ELSE LET t == TypeOrder[k]
         IN  [i \in 1..Len(d[t]) |->
                 [name |-> d[t][i].name, internal_id |-> d[t][i].internal_id,
                  type |-> t]]
             \o ExtractFrom(d, k + 1)

extract_services(d) == ExtractFrom(d, 1)

\* get_service_type: type of the first flattened record matching by id or name
RECURSIVE TypeFrom(_, _, _)
TypeFrom(services, search_value, i) ==
    IF i > Len(services) THEN NoRec
    ELSE IF services[i].internal_id = search_value \/ services[i].name = search_value
         THEN Some(services[i].type)
         ELSE TypeFrom(services, search_value, i + 1)

get_service_type(services, search_value) == TypeFrom(services, search_value, 1)

(***************************************************************************)
(* Command Dispatcher: the flag chain of get_api_key (main.py 1490-1630).  *)
(***************************************************************************)
\* faulty variant: --ddos is not recognised as an action flag
Branch_no_ddos(a) ==
    IF Truthy(a.start) \/ Truthy(a.stop) \/ Truthy(a.restart) THEN "power"
    ELSE IF a.backup # NoArg THEN "backup"
    ELSE IF a.traffic # NoArg THEN "traffic"
    ELSE IF a.monitoring # NoArg THEN "monitoring"
    ELSE IF a.install THEN "install"
    ELSE IF a.dns # NoArg THEN "dns"
    ELSE "none"

\* faulty variant: the backup branch is tested before the power flags
Branch_backup_first(a) ==
    IF a.backup # NoArg THEN "backup"
    ELSE IF Truthy(a.start) \/ Truthy(a.stop) \/ Truthy(a.restart) THEN "power"
    ELSE IF a.traffic # NoArg THEN "traffic"
    ELSE IF a.monitoring # NoArg THEN "monitoring"
    ELSE IF a.install THEN "install"
    ELSE IF a.dns # NoArg THEN "dns"
    ELSE IF a.ddos THEN "ddos"
    ELSE "none"

\* which if-branch of get_api_key is entered
Branch(a) ==
    IF Truthy(a.start) \/ Truthy(a.stop) \/ Truthy(a.restart) THEN "power"
    ELSE IF a.backup # NoArg THEN "backup"
    ELSE IF a.traffic # NoArg THEN "traffic"
    ELSE IF a.monitoring # NoArg THEN "monitoring"
    ELSE IF a.install THEN "install"
    ELSE IF a.dns # NoArg THEN "dns"
    ELSE IF a.ddos THEN "ddos"
    ELSE "none"

NoCall == [fn |-> "", ident |-> EmptyStr, arg |-> "", vals |-> << >>]
Call(fn, ident, arg, vals) == [fn |-> fn, ident |-> ident, arg |-> arg, vals |-> vals]

\* sys.exit(1) after the printed messages
Fail(msgs) == [exit |-> 1, out |-> msgs, call |-> NoCall]
\* the branch goes on to its handler
Run(c) == [exit |-> 0, out |-> << >>, call |-> c]

\* main.py 1491-1501
PowerBranch(a) ==
    IF Truthy(a.start) THEN Run(Call("control_kvm_server", a.start[1], "start", << >>))
    ELSE IF Truthy(a.stop) THEN Run(Call("control_kvm_server", a.stop[1], "stop", << >>))
    ELSE Run(Call("control_kvm_server", a.restart[1], "restart", << >>))

\* faulty variant: --backup-id is demanded for restore only
BackupBranch_restore_only(a) ==
    IF ~Truthy(a.target) THEN Fail(<< "error", "usage" >>)
    ELSE IF a.backup[1] \in {"restore"} /\ ~Truthy(a.backup_id)
         THEN Fail(<< "error", "usage" >>)
         ELSE Run(Call("handle_backup_request", a.target[1], a.backup[1],
                       << IF a.backup_id = NoArg THEN PyNone ELSE a.backup_id[1] >>))

\* main.py 1504-1520
BackupBranch(a) ==
    IF ~Truthy(a.target) THEN Fail(<< "error", "usage" >>)
    ELSE IF a.backup[1] \in {"restore", "delete"} /\ ~Truthy(a.backup_id)
         THEN Fail(<< "error", "usage" >>)
         ELSE Run(Call("handle_backup_request", a.target[1], a.backup[1],
                       << IF a.backup_id = NoArg THEN PyNone ELSE a.backup_id[1] >>))

\* main.py 1523-1533
TrafficBranch(a) ==
    IF ~Truthy(a.target) THEN Fail(<< "error", "usage" >>)
    ELSE Run(Call("handle_traffic", a.target[1], a.traffic[1], << >>))

\* main.py 1535-1545
MonitoringBranch(a) ==
    IF ~Truthy(a.target) THEN Fail(<< "error", "usage" >>)
    ELSE Run(Call("handle_monitoring", a.target[1], a.monitoring[1], << >>))

\* main.py 1548-1557
InstallBranch(a) ==
    IF ~Truthy(a.target) THEN Fail(<< "error", "usage" >>)
    ELSE Run(Call("install_automations", a.target[1], "", << >>))

\* faulty variant: the fields are passed on as they were cut
DnsAdd_no_strip(a) ==
    IF ~Truthy(a.add) THEN Fail(<< "error", "usage" >>)
    ELSE LET parts == split(a.add[1], ",", 2)
         IN  IF Len(parts) # 3 THEN Fail(<< "invalid_format" >>)
             ELSE Run(Call("handle_dns_add", a.target[1], "add",
                           << parts[1], parts[2], parts[3] >>))

\* faulty variant: a value of two fields is accepted, with empty data
DnsAdd_lenient(a) ==
    IF ~Truthy(a.add) THEN Fail(<< "error", "usage" >>)
    ELSE LET parts == split(a.add[1], ",", 2)
         IN  IF Len(parts) < 2 THEN Fail(<< "invalid_format" >>)
             ELSE Run(Call("handle_dns_add", a.target[1], "add",
                           << strip(parts[1]), strip(parts[2]),
                              IF Len(parts) = 3 THEN strip(parts[3]) ELSE EmptyStr >>))

\* main.py 1574-1585: dns_type, name, data = args.add.split(',', 2)
DnsAdd(a) ==
    IF ~Truthy(a.add) THEN Fail(<< "error", "usage" >>)
    ELSE LET parts == split(a.add[1], ",", 2)
         IN  IF Len(parts) # 3 THEN Fail(<< "invalid_format" >>)
             ELSE Run(Call("handle_dns_add", a.target[1], "add",
                           << strip(parts[1]), strip(parts[2]), strip(parts[3]) >>))

\* faulty variant: a value of three fields is accepted, with empty data
DnsEdit_lenient(a) ==
    IF ~Truthy(a.edit) THEN Fail(<< "error", "usage" >>)
    ELSE LET parts == split(a.edit[1], ",", 3)
         IN  IF Len(parts) < 3 THEN Fail(<< "invalid_format" >>)
             ELSE Run(Call("handle_dns_edit", a.target[1], "edit",
                           << strip(parts[1]), strip(parts[2]), strip(parts[3]),
                              IF Len(parts) = 4 THEN strip(parts[4]) ELSE EmptyStr >>))

\* main.py 1587-1598: record_id, dns_type, name, data = args.edit.split(',', 3)
DnsEdit(a) ==
    IF ~Truthy(a.edit) THEN Fail(<< "error", "usage" >>)
    ELSE LET parts == split(a.edit[1], ",", 3)
         IN  IF Len(parts) # 4 THEN Fail(<< "invalid_format" >>)
             ELSE Run(Call("handle_dns_edit", a.target[1], "edit",
                           << strip(parts[1]), strip(parts[2]), strip(parts[3]),
                              strip(parts[4]) >>))

\* main.py 1560-1607
DnsBranch(a) ==
    IF ~Truthy(a.target) THEN Fail(<< "error", "usage" >>)
    ELSE IF a.dns[1] = "remove"
         THEN IF ~Truthy(a.remove) THEN Fail(<< "error" >>)
              ELSE Run(Call("handle_dns_remove", a.target[1], "remove", << a.remove[1] >>))
    ELSE IF a.dns[1] = "add" THEN DnsAdd(a)
    ELSE IF a.dns[1] = "edit" THEN DnsEdit(a)
    ELSE Run(Call("handle_dns_list", a.target[1], "", << >>))

\* faulty variant: the target is tested against None instead of for truth
DdosBranch_none_check(a) ==
    IF a.target = NoArg THEN Fail(<< "error", "usage" >>)
    ELSE Run(Call("handle_ddos", a.target[1], "", << >>))

\* main.py 1610-1620
DdosBranch(a) ==
    IF ~Truthy(a.target) THEN Fail(<< "error", "usage" >>)
    ELSE Run(Call("handle_ddos", a.target[1], "", << >>))

\* the decision get_api_key takes for a namespace with an action flag
Dispatch(a) ==
    CASE Branch(a) = "power" -> PowerBranch(a)
      [] Branch(a) = "backup" -> BackupBranch(a)
      [] Branch(a) = "traffic" -> TrafficBranch(a)
      [] Branch(a) = "monitoring" -> MonitoringBranch(a)
      [] Branch(a) = "install" -> InstallBranch(a)
      [] Branch(a) = "dns" -> DnsBranch(a)
      [] Branch(a) = "ddos" -> DdosBranch(a)

(***************************************************************************)
(* HTTP requests.                                                          *)
(***************************************************************************)
Path(res, id, sub) == [res |-> res, id |-> id, sub |-> sub]
Request(method, path, body, key) ==
    [method |-> method, path |-> path, body |-> body, key |-> key]

KvmHandlers == {"control_kvm_server", "handle_backup_request", "handle_traffic",
                "handle_monitoring", "handle_ddos", "install_automations"}
DnsHandlers == {"handle_dns_remove", "handle_dns_add", "handle_dns_edit",
                "handle_dns_list"}

ServicesPath == Path("account", EmptyStr, "services")
GetServices(key) == Request("GET", ServicesPath, << >>, key)

\* faulty variant: the backup is created with a GET
BackupRequest_create_get(c, id, key) ==
    CASE c.arg = "list" -> Request("GET", Path("kvm", id, "backup/list"), << >>, key)
      [] c.arg = "create" -> Request("GET", Path("kvm", id, "backup/create"), << >>, key)
      [] c.arg = "restore" ->
           Request("POST", Path("kvm", id, "backup/restore"),
                   << << "backup_id", c.vals[1] >> >>, key)
      [] c.arg = "delete" ->
           Request("DELETE", Path("kvm", id, "backup/delete"),
                   << << "backup_id", c.vals[1] >> >>, key)

\* the request of handle_backup_request for each action (main.py 261-337)
BackupRequest(c, id, key) ==
    CASE c.arg = "list" -> Request("GET", Path("kvm", id, "backup/list"), << >>, key)
      [] c.arg = "create" -> Request("POST", Path("kvm", id, "backup/create"), << >>, key)
      [] c.arg = "restore" ->
           Request("POST", Path("kvm", id, "backup/restore"),
                   << << "backup_id", c.vals[1] >> >>, key)
      [] c.arg = "delete" ->
           Request("DELETE", Path("kvm", id, "backup/delete"),
                   << << "backup_id", c.vals[1] >> >>, key)

\* faulty variant: the record is added with a POST to dns/edit
DnsRequest_add_as_edit(c, id, key) ==
    CASE c.fn = "handle_dns_remove" ->
           Request("DELETE", Path("domain", id, "dns/remove"),
                   << << "record_id", c.vals[1] >> >>, key)
      [] c.fn = "handle_dns_add" ->
           Request("POST", Path("domain", id, "dns/edit"),
                   << << "type", c.vals[1] >>, << "name", c.vals[2] >>,
                      << "data", c.vals[3] >> >>, key)
      [] c.fn = "handle_dns_edit" ->
           Request("POST", Path("domain", id, "dns/edit"),
                   << << "record_id", c.vals[1] >>, << "type", c.vals[2] >>,
                      << "name", c.vals[3] >>, << "data", c.vals[4] >> >>, key)
      [] c.fn = "handle_dns_list" ->
           Request("GET", Path("domain", id, "dns"), << >>, key)

\* the request of each handle_dns_* function (main.py 1187-1326)
DnsRequest(c, id, key) ==
    CASE c.fn = "handle_dns_remove" ->
           Request("DELETE", Path("domain", id, "dns/remove"),
                   << << "record_id", c.vals[1] >> >>, key)
      [] c.fn = "handle_dns_add" ->
           Request("PUT", Path("domain", id, "dns/add"),
                   << << "type", c.vals[1] >>, << "name", c.vals[2] >>,
                      << "data", c.vals[3] >> >>, key)
      [] c.fn = "handle_dns_edit" ->
           Request("POST", Path("domain", id, "dns/edit"),
                   << << "record_id", c.vals[1] >>, << "type", c.vals[2] >>,
                      << "name", c.vals[3] >>, << "data", c.vals[4] >> >>, key)
      [] c.fn = "handle_dns_list" ->
           Request("GET", Path("domain", id, "dns"), << >>, key)

\* faulty variant: the URL is built from the record's name
TargetId_name(rec) == rec.name

\* the id a handler puts into its URL: server['internal_id'] (main.py 100)
TargetId(rec) == rec.internal_id

\* the one request a handler builds for the record its resolver returned
ActionRequest(c, rec, key) ==
    LET id == TargetId(rec)
    IN  CASE c.fn = "control_kvm_server" ->
               Request("POST", Path("kvm", id, "power"), << << "mode", << c.arg >> >> >>, key)
          [] c.fn = "handle_backup_request" -> BackupRequest(c, id, key)
          [] c.fn = "handle_traffic" /\ c.arg = "usage" ->
               Request("GET", Path("kvm", id, "traffic/current"), << >>, key)
          [] c.fn = "handle_traffic" /\ c.arg = "logs" ->
               Request("GET", Path("kvm", id, "traffic/log"), << >>, key)
          [] c.fn = "handle_monitoring" /\ c.arg = "outages" ->
               Request("GET", Path("kvm", id, "monitoring/incidences"), << >>, key)
          [] c.fn = "handle_monitoring" /\ c.arg = "reading" ->
               Request("GET", Path("kvm", id, "monitoring/timings"), << >>, key)
          [] c.fn = "handle_ddos" ->
               Request("GET", Path("kvm", id, "ddos"), << >>, key)
          [] c.fn \in DnsHandlers -> DnsRequest(c, id, key)

\* answers to an action request: 200 with status success, 200 with another status,
\* a non-200 status, a transport exception, and a 200 whose body is not JSON, for
\* which response.json() raises a RequestException subclass (badjsonR) or a plain
\* ValueError (badjsonV) depending on the installed requests release
ActionResponses == {"success", "apifail", "http", "neterr", "badjsonR", "badjsonV"}

Printed(tag) == [out |-> << tag >>, exit |-> 0]
\* an exception no handler catches: traceback, exit status 1
Uncaught == [out |-> << "traceback" >>, exit |-> 1]

\* what the handler prints for a response, and the exit status the run ends with
HandlerOutcome(fn, kind) ==
    CASE kind = "success" -> Printed("ok")
      [] kind \in {"apifail", "http"} -> Printed("error")
      [] kind = "neterr" ->
           IF fn = "handle_backup_request" THEN Uncaught ELSE Printed("network_error")
      [] kind = "badjsonR" ->
           IF fn = "handle_backup_request" THEN Uncaught
           ELSE IF fn = "handle_traffic" THEN Printed("parse_error")
           ELSE Printed("network_error")
      [] kind = "badjsonV" ->
           IF fn = "handle_traffic" THEN Printed("parse_error")
           ELSE IF fn \in {"handle_dns_add", "handle_dns_edit"}
                THEN [out |-> << "invalid_format" >>, exit |-> 1]
           ELSE Uncaught

(***************************************************************************)
(* Traffic usage formatter (main.py 370-435).  Amounts of traffic are      *)
(* counted in tenths of a GB; the values used are exact binary floats or   *)
(* give quotients away from a rounding tie, so exact arithmetic agrees     *)
(* with the float arithmetic of the program.                               *)
(***************************************************************************)
bar_length == 30

\* a JSON value of the answer: a number, a string, or a key that is missing
JsonNum(n) == [kind |-> "number", val |-> n]
JsonText == [kind |-> "string", val |-> 0]
JsonMissing == [kind |-> "missing", val |-> 0]

\* x = d.get(key, 0); x = x if isinstance(x, (int, float)) else 0   (main.py 380-385,
\* 399-405)
Numeric(v) == IF v.kind = "number" THEN v.val ELSE 0

\* data of a successful traffic/current answer: usage.total in tenths of a GB,
\* limit.monthly in GB
TrafficData ==
    [total10 : {JsonNum(n) : n \in {-30, 0, 125, 330, 340, 5000, 7000, 10000, 15000}}
               \cup {JsonText},
     monthly : {JsonNum(0), JsonNum(1000), JsonNum(-1000), JsonMissing, JsonText}]
NoData == [total10 |-> JsonNum(0), monthly |-> JsonNum(0)]

\* the integer nearest to n/d, a tie going to the even one: what the format
\* specifications .1f and .2f do with an exactly represented value
RoundHalfEven(n, d) ==
    LET q == n \div d
        r == n % d
    IN  IF 2 * r < d THEN q
        ELSE IF 2 * r > d THEN q + 1
        ELSE IF q % 2 = 0 THEN q ELSE q + 1

\* a number printed with the given count of decimals: its integer part and the
\* decimals as one number
Fixed(whole, frac, decimals) == [whole |-> whole, frac |-> frac, decimals |-> decimals]

\* a printed number below zero: the minus sign before the digits of its magnitude
Minus(f) == [whole |-> f.whole, frac |-> f.frac, decimals |-> f.decimals, sign |-> "-"]

\* f"{usage_percent:.1f}" for usage_percent = (total / monthly_limit) * 100
PercentText(total10, monthly) ==
    LET magnitude == IF total10 < 0 THEN -total10 ELSE total10
        tenths == RoundHalfEven(magnitude * 100, monthly)
        digits == Fixed(tenths \div 10, tenths % 10, 1)
    IN  IF total10 < 0 THEN Minus(digits) ELSE digits

\* int(x) for the quotient x = n / d of integers, d > 0: the fraction is cut off,
\* towards zero
IntOfQuotient(n, d) == IF n >= 0 THEN n \div d ELSE -((-n) \div d)

\* faulty variant: the count of filled cells is not clamped
FilledLength_unclamped(total10, monthly) ==
    IntOfQuotient(bar_length * total10, monthly * 10)

\* int(bar_length * total / monthly_limit), clamped to 0..bar_length
FilledLength(total10, monthly) ==
    LET filled_length == IntOfQuotient(bar_length * total10, monthly * 10)
    IN  IF filled_length > bar_length THEN bar_length
        ELSE IF filled_length < 0 THEN 0 ELSE filled_length

NothingShown == [data |-> NoData, percent |-> << >>, bar |-> << >>]

\* what format_traffic_usage prints of percentage and progress bar: both only
\* for a positive monthly limit; the bar as its filled and its empty cells
format_traffic_usage(data) ==
    LET total == Numeric(data.total10)
        monthly_limit == Numeric(data.monthly)
    IN  IF monthly_limit > 0
        THEN [data |-> data,
              percent |-> << PercentText(total, monthly_limit) >>,
              bar |-> << [filled |-> FilledLength(total, monthly_limit),
                          empty |-> bar_length - FilledLength(total, monthly_limit)] >>]
        ELSE [data |-> data, percent |-> << >>, bar |-> << >>]

(***************************************************************************)
(* Backup listing (main.py 145-250).  A backup is represented by its       *)
(* 'status' entry alone: missing, or one of a few words.                   *)
(***************************************************************************)
StatusValues == {NoArg, Some("finished"), Some("Finished"), Some("running"),
                 Some("RUNNING"), Some("failed"), Some("pending")}
BackupLists == SeqsUpTo(StatusValues, MaxBackups)

\* str.lower() on the status words
LowerWord(w) ==
    CASE w = "Finished" -> "finished"
      [] w = "RUNNING" -> "running"
      [] OTHER -> w

\* the status line of one backup: status = backup.get('status', 'unknown').lower()
\* picks the icon and is the word shown (main.py 196-211)
StatusLine(backup) ==
    LET status == LowerWord(IF backup = NoArg THEN "unknown" ELSE backup[1])
    IN  [status |-> status,
         icon |-> CASE status = "finished" -> "check"
                    [] status = "running" -> "hourglass"
                    [] status = "failed" -> "cross"
                    [] OTHER -> "?"]

\* sum(1 for backup in backups if backup.get('status') == word)   (main.py 234-236)
CountStatus(backups, word) ==
    Cardinality({i \in 1..Len(backups) : backups[i] = Some(word)})

\* what format_backups prints: a status line per backup and, for a non-empty
\* list, the summary with its counts
format_backups(backups) ==
    [data |-> backups,
     lines |-> [i \in 1..Len(backups) |-> StatusLine(backups[i])],
     summary |-> IF backups = << >> THEN << >>
                 ELSE << [total |-> Len(backups),
                          finished |-> CountStatus(backups, "finished"),
                          running |-> CountStatus(backups, "running"),
                          failed |-> CountStatus(backups, "failed")] >>]

\* the data a handler formats from a successful answer
ResponseData(c, kind) ==
    IF c.fn = "handle_traffic" /\ c.arg = "usage" /\ kind = "success"
    THEN TrafficData
    ELSE IF c.fn = "handle_backup_request" /\ c.arg = "list" /\ kind = "success"
    THEN BackupLists
    ELSE {NoData}
Formatted(c, kind, data) ==
    IF c.fn = "handle_traffic" /\ c.arg = "usage" /\ kind = "success"
    THEN format_traffic_usage(data)
    ELSE IF c.fn = "handle_backup_request" /\ c.arg = "list" /\ kind = "success"
    THEN format_backups(data)
    ELSE NothingShown

(***************************************************************************)
(* Interactive menu: input lines and their normalisation.                  *)
(***************************************************************************)
\* the character SUPERSCRIPT TWO (U+00B2): a digit for str.isdigit(), no decimal
Sup2 == "^2"
MenuLines == {<< >>, << "0" >>, << "1" >>, << "2" >>, << "3" >>, << "x" >>, << Sup2 >>,
              << "0", "0" >>, << "0", "1" >>, << "1", " " >>, << "1", "x" >>}
ExtrasLines == {<< >>, << "1" >>, << "2" >>, << "3" >>, << "4" >>, << "x" >>, << " ", "4" >>}
ContinueLines == {<< >>, << "y" >>, << "Y" >>, << "n" >>, << "y", " " >>, << "y", "y" >>}

Digits == << "0", "1", "2", "3", "4", "5", "6", "7", "8", "9" >>
IsDecimalChar(c) == \E k \in 1..Len(Digits) : Digits[k] = c
IsDigitChar(c) == IsDecimalChar(c) \/ c = Sup2
DigitValue(c) == (CHOOSE k \in 1..Len(Digits) : Digits[k] = c) - 1

\* str.isdigit(): non-empty and all characters digits
isdigit(s) == s # << >> /\ \A i \in 1..Len(s) : IsDigitChar(s[i])

\* the strings int() accepts among those passing isdigit(): decimal characters only,
\* any other raises ValueError
isdecimal(s) == s # << >> /\ \A i \in 1..Len(s) : IsDecimalChar(s[i])

\* int(s) for a decimal string
RECURSIVE int(_)
int(s) == IF s = << >> THEN 0
          ELSE int(SubSeq(s, 1, Len(s) - 1)) * Len(Digits) + DigitValue(s[Len(s)])

\* str.lower() on the characters the prompts are answered with
lower(s) == [i \in 1..Len(s) |-> IF s[i] = "Y" THEN "y" ELSE s[i]]

(***************************************************************************)
(* Process exit.                                                           *)
(***************************************************************************)
Entries == {"main.py", "launcher.py"}

\* exit status of sys.exit(code) raised inside main(): launcher.py wraps the call
\* main.main(main.API_KEY) in try/except SystemExit: pass (launcher.py 45-49)
ExitInMain(e, code) == IF e = "launcher.py" THEN 0 ELSE code

(***************************************************************************)
(* State of one run of the program.                                        *)
(***************************************************************************)
VARIABLES
    entry,      \* the script the process was started with
    args,       \* the parsed command line
    env,        \* FIRE_API_KEY of the environment (after load_dotenv)
    pc,         \* position of the process
    API_KEY,    \* the module global of main.py, unset until get_api_key returns
    api_key,    \* the local api_key of the action branch entered
    call,       \* the handler call the dispatcher made
    found,      \* what the handler's resolver returned
    svc,        \* the last answer to GET /account/services
    reqs,       \* every HTTP request issued so far, with the kind of its answer
    out,        \* the messages printed so far
    exitCode,   \* exit status of the process, -1 while it runs
    stack,      \* call stack of main / show_extras_menu frames, innermost last
    consumed,   \* service records received and input lines read so far
    last,       \* the prompt answered last and the line typed at it
    shown,      \* what format_traffic_usage or format_backups printed
    calls       \* the calls of a resolver, of main and of show_extras_menu so far

vars == << entry, args, env, pc, API_KEY, api_key, call, found, svc, reqs, out,
           exitCode, stack, consumed, last, shown, calls >>

NoLine == [prompt |-> "none", line |-> << >>]
Typed(prompt, line) == [prompt |-> prompt, line |-> line]

NoResp == [kind |-> "none", services |-> EmptyDict]
Sent(req, kind) == [req |-> req, resp |-> kind]

\* the run may take n more units of input (records, lines) within the bound
Affordable(n) == NumInputs(args, env) + consumed + n <= MaxWorld

\* the process before get_api_key is called
Fresh ==
    /\ pc = "get_api_key"
    /\ API_KEY = NoArg
    /\ api_key = EmptyStr
    /\ call = NoCall
    /\ found = NoRec
    /\ svc = NoResp
    /\ reqs = << >>
    /\ out = << >>
    /\ exitCode = -1
    /\ stack = << >>
    /\ consumed = 0
    /\ last = NoLine
    /\ shown = NothingShown
    /\ calls = << >>

\* launcher.py runs the same module code as main.py up to the end of the import
\* (launcher.py 45); a run that ends in get_api_key is the same under both
Init ==
    /\ args \in ArgSets(MaxInputs)
    /\ env \in EnvVals
    /\ NumInputs(args, env) <= MaxInputs
    /\ entry \in IF Branch(args) = "none" THEN Entries ELSE {"main.py"}
    /\ Fresh

\* get_api_key with an action flag: validate, then enter the handler or exit 1
GetApiKeyAction ==
    /\ pc = "get_api_key"
    /\ Branch(args) # "none"
    /\ LET d == Dispatch(args)
       IN  /\ api_key' = ApiKeyOr(args, env)
           /\ call' = d.call
           /\ out' = out \o d.out
           /\ IF d.call = NoCall
              THEN pc' = "done" /\ exitCode' = d.exit
              ELSE pc' = "find" /\ exitCode' = exitCode
    /\ UNCHANGED << entry, args, env, API_KEY, found, svc, reqs, stack, consumed, last,
                    shown, calls >>

\* get_api_key without an action flag returns the key; API_KEY = get_api_key()
GetApiKeyReturn ==
    /\ pc = "get_api_key"
    /\ Branch(args) = "none"
    /\ API_KEY' = Some(ApiKeyReturn(args, env))
    /\ pc' = "loaded"
    /\ UNCHANGED << entry, args, env, api_key, call, found, svc, reqs, out, exitCode,
                    stack, consumed, last, shown, calls >>

\* messages of a resolver call and of the handler's "if not server" test
FindMessages(resp, rec) ==
    (IF resp.kind \in {"neterr", "badjson"} THEN << "find_error" >> ELSE << >>)
    \o (IF rec = NoRec THEN << "not_found" >> ELSE << >>)

\* the resolver a handler calls
ResolverOf(fn) == IF fn \in KvmHandlers THEN "find_kvm_server" ELSE "find_domain"

\* faulty variant: the resolver answers from a kept service list, without a request
Found_cached(resp, rec) ==
    /\ Affordable(NumRecords(resp.services))
    /\ consumed' = consumed + NumRecords(resp.services)
    /\ calls' = Append(calls, ResolverOf(call.fn))
    /\ reqs' = reqs
    /\ svc' = resp
    /\ found' = rec
    /\ out' = out \o FindMessages(resp, rec)
    /\ IF rec = NoRec
       THEN pc' = "done" /\ exitCode' = 0
       ELSE pc' = "request" /\ exitCode' = exitCode
    /\ UNCHANGED << entry, args, env, API_KEY, api_key, call, stack, last, shown >>

\* the resolver call opening a handler; a handler without a record returns, and
\* the branch ends with sys.exit(0)
Found(resp, rec) ==
    /\ Affordable(NumRecords(resp.services))
    /\ consumed' = consumed + NumRecords(resp.services)
    /\ calls' = Append(calls, ResolverOf(call.fn))
    /\ reqs' = Append(reqs, Sent(GetServices(api_key), resp.kind))
    /\ svc' = resp
    /\ found' = rec
    /\ out' = out \o FindMessages(resp, rec)
    /\ IF rec = NoRec
       THEN pc' = "done" /\ exitCode' = 0
       ELSE pc' = "request" /\ exitCode' = exitCode
    /\ UNCHANGED << entry, args, env, API_KEY, api_key, call, stack, last, shown >>

FindKvmServer ==
    /\ pc = "find"
    /\ call.fn \in KvmHandlers
    /\ \E resp \in ServicesResponses : Found(resp, find_kvm_server(resp, call.ident))

FindDomain ==
    /\ pc = "find"
    /\ call.fn \in DnsHandlers
    /\ \E resp \in ServicesResponses : Found(resp, find_domain(resp, call.ident))

\* faulty variant: a request that failed in transport is sent again
Handler_retry(fn) ==
    /\ pc = "request"
    /\ call.fn = fn
    /\ \E kind \in ActionResponses :
         LET o == HandlerOutcome(fn, kind)
             again == kind = "neterr" /\ Len(reqs) < 3
         IN  /\ reqs' = Append(reqs, Sent(ActionRequest(call, found[1], api_key), kind))
             /\ out' = out \o o.out
             /\ exitCode' = IF again THEN exitCode ELSE o.exit
             /\ pc' = IF again THEN "request" ELSE "done"
             /\ \E data \in ResponseData(call, kind) :
                    shown' = Formatted(call, kind, data)
    /\ UNCHANGED << entry, args, env, API_KEY, api_key, call, found, svc, stack,
                    consumed, last, calls >>

\* the rest of a handler: one request, its answer handled, then sys.exit(0)
\* unless an exception escaped
Handler(fn) ==
    /\ pc = "request"
    /\ call.fn = fn
    /\ \E kind \in ActionResponses :
         LET o == HandlerOutcome(fn, kind)
         IN  /\ reqs' = Append(reqs, Sent(ActionRequest(call, found[1], api_key), kind))
             /\ out' = out \o o.out
             /\ exitCode' = o.exit
             /\ \E data \in ResponseData(call, kind) :
                    shown' = Formatted(call, kind, data)
    /\ pc' = "done"
    /\ UNCHANGED << entry, args, env, API_KEY, api_key, call, found, svc, stack,
                    consumed, last, calls >>

ControlKvmServer == Handler("control_kvm_server")
HandleBackupRequest == Handler("handle_backup_request")
HandleTraffic == Handler("handle_traffic")
HandleMonitoring == Handler("handle_monitoring")
HandleDdos == Handler("handle_ddos")
HandleDnsRemove == Handler("handle_dns_remove")
HandleDnsAdd == Handler("handle_dns_add")
HandleDnsEdit == Handler("handle_dns_edit")
HandleDnsList == Handler("handle_dns_list")

\* faulty variant: the installation goes on to its confirmation prompt
InstallAutomations_proceeds ==
    /\ pc = "request"
    /\ call.fn = "install_automations"
    /\ out' = Append(out, "confirm_install")
    /\ exitCode' = 0
    /\ pc' = "done"
    /\ UNCHANGED << entry, args, env, API_KEY, api_key, call, found, svc, reqs, stack,
                    consumed, last, shown, calls >>

\* install_automations after a found server: "not finished" and sys.exit(0)
InstallAutomations ==
    /\ pc = "request"
    /\ call.fn = "install_automations"
    /\ out' = Append(out, "not_finished")
    /\ exitCode' = 0
    /\ pc' = "done"
    /\ UNCHANGED << entry, args, env, API_KEY, api_key, call, found, svc, reqs, stack,
                    consumed, last, shown, calls >>

(***************************************************************************)
(* Interactive mode: main and show_extras_menu as stack frames.            *)
(***************************************************************************)
Frame(fn, key, at) == [fn |-> fn, api_key |-> key, at |-> at, data |-> << >>]
Top == stack[Len(stack)]
SetTop(f) == [stack EXCEPT ![Len(stack)] = f]
\* replace the caller's frame by f and call g
Push2(f, g) == Append(SetTop(f), g)
\* "No services found" is printed before the prompt when the list is empty
NoServices(data) == IF data = << >> THEN << "no_services" >> ELSE << >>

\* frames that have nothing left to do return to their callers
RECURSIVE Unwind(_)
Unwind(stk) ==
    IF stk # << >> /\ stk[Len(stk)].at = "return"
    THEN Unwind(SubSeq(stk, 1, Len(stk) - 1))
    ELSE stk

\* faulty variant: a frame that returns ends the whole session
Returns_ends ==
    /\ stack' = << >>
    /\ pc' = "done"
    /\ exitCode' = 0

\* the top frame returns; the outermost main returning ends the process with status 0
Returns ==
    /\ stack' = Unwind(SetTop([Top EXCEPT !.at = "return"]))
    /\ IF stack' = << >>
       THEN pc' = "done" /\ exitCode' = 0
       ELSE UNCHANGED << pc, exitCode >>

\* faulty variant: option 4 restarts main without a key
BackToMainKey_none(frame_key, global_key) == NoneKey

\* the key show_extras_menu option 4 passes to main: the module global (main.py 1867)
BackToMainKey(frame_key, global_key) == global_key

\* if __name__ == "__main__": main(API_KEY)  /  main.main(main.API_KEY)
EnterMain ==
    /\ pc = "loaded"
    /\ stack' = << Frame("main", API_KEY[1], "request_data") >>
    /\ pc' = "interactive"
    /\ calls' = Append(calls, "main")
    /\ UNCHANGED << entry, args, env, API_KEY, api_key, call, found, svc, reqs, out,
                    exitCode, consumed, last, shown >>

\* the process ends with an uncaught exception
Crash ==
    /\ out' = Append(out, "traceback")
    /\ exitCode' = 1
    /\ pc' = "done"
    /\ stack' = stack

\* faulty variant: a non-200 answer is treated as an empty service list
request_data_continue(resp) ==
    CASE resp.kind = "ok" -> [does |-> "return", data |-> extract_services(resp.services)]
      [] resp.kind = "http" -> [does |-> "return", data |-> << >>]
      [] resp.kind \in {"httpraw", "neterr", "badjson"} ->
           [does |-> "raise", data |-> << >>]

\* request_data: the flattened list on 200, sys.exit(1) on another status, and an
\* exception when the request or the decoding of a 200 body fails
request_data(resp) ==
    CASE resp.kind = "ok" -> [does |-> "return", data |-> extract_services(resp.services)]
      [] resp.kind = "http" -> [does |-> "exit", data |-> << >>]
      [] resp.kind \in {"httpraw", "neterr", "badjson"} ->
           [does |-> "raise", data |-> << >>]

\* main up to its menu (main.py 1876-1893)
RequestData ==
    /\ pc = "interactive"
    /\ Top.fn = "main" /\ Top.at = "request_data"
    /\ \E resp \in ServicesResponses :
         /\ Affordable(NumRecords(resp.services))
         /\ consumed' = consumed + NumRecords(resp.services)
         /\ reqs' = Append(reqs, Sent(GetServices(Top.api_key), resp.kind))
         /\ svc' = resp
         /\ LET r == request_data(resp)
            IN  CASE r.does = "return" ->
                       /\ stack' = SetTop([Top EXCEPT !.at = "menu", !.data = r.data])
                       /\ UNCHANGED << pc, out, exitCode >>
                  [] r.does = "exit" ->
                       /\ out' = Append(out, "error")
                       /\ exitCode' = ExitInMain(entry, 1)
                       /\ pc' = "done"
                       /\ stack' = stack
                  [] OTHER -> Crash
    /\ UNCHANGED << entry, args, env, API_KEY, api_key, call, found, last, shown,
                    calls >>

\* the types fetch_infos has a URL for
InfoTypes == {"KVM", "WEBSPACE", "DOMAIN"}

\* faulty variant: a KVM server is asked for its status
InfoPath_kvm_status(service) ==
    CASE service.type = "KVM" -> Path("kvm", service.internal_id, "status")
      [] service.type = "WEBSPACE" -> Path("webspace", service.internal_id, "")
      [] service.type = "DOMAIN" -> Path("domain", service.internal_id, "")

\* the path fetch_infos requests for a service (main.py 1673-1690)
InfoPath(service) ==
    CASE service.type = "KVM" -> Path("kvm", service.internal_id, "config")
      [] service.type = "WEBSPACE" -> Path("webspace", service.internal_id, "")
      [] service.type = "DOMAIN" -> Path("domain", service.internal_id, "")

InfoResponses == {"success", "apifail", "http", "neterr", "badjson"}

\* the menu of main: one line of input decides (main.py 1895-1920)
Menu ==
    /\ pc = "interactive"
    /\ Top.fn = "main" /\ Top.at = "menu"
    /\ Affordable(1)
    /\ consumed' = consumed + 1
    /\ \E line \in MenuLines :
         /\ last' = Typed("menu", line)
         /\ LET user_input == strip(line)
                data == Top.data
            IN  IF user_input = << "0" >>
                THEN \* show_extras_menu(api_key); main returns when it comes back
                     /\ stack' = Push2([Top EXCEPT !.at = "return"],
                                       Frame("show_extras_menu", Top.api_key, "choice"))
                     /\ calls' = Append(calls, "show_extras_menu")
                     /\ out' = out \o NoServices(data)
                     /\ UNCHANGED << reqs, exitCode, pc >>
                ELSE IF data # << >> /\ isdigit(user_input) /\ ~isdecimal(user_input)
                THEN \* int(user_input) raises ValueError
                     Crash /\ reqs' = reqs /\ calls' = calls
                ELSE IF data # << >> /\ isdigit(user_input)
                        /\ 1 <= int(user_input) /\ int(user_input) <= Len(data)
                        /\ data[int(user_input)].type \notin InfoTypes
                THEN \* fetch_infos requests nothing and returns None
                     /\ out' = out \o << "invalid_type", "info" >>
                     /\ Returns
                     /\ reqs' = reqs
                     /\ calls' = calls
                ELSE IF data # << >> /\ isdigit(user_input)
                        /\ 1 <= int(user_input) /\ int(user_input) <= Len(data)
                THEN \E kind \in InfoResponses :
                       /\ reqs' = Append(reqs,
                             Sent(Request("GET", InfoPath(data[int(user_input)]), << >>,
                                          Top.api_key), kind))
                       /\ calls' = calls
                       /\ IF kind \in {"neterr", "badjson"}
                          THEN Crash
                          ELSE out' = Append(out, "info") /\ Returns
                ELSE /\ out' = out \o (IF data = << >> THEN NoServices(data)
                                       ELSE << "invalid" >>)
                     /\ Returns
                     /\ reqs' = reqs
                     /\ calls' = calls
    /\ UNCHANGED << entry, args, env, API_KEY, api_key, call, found, svc, shown >>

AccountPath(choice) ==
    CASE choice = << "1" >> -> Path("account", EmptyStr, "")
      [] choice = << "2" >> -> Path("account", EmptyStr, "donations")
      [] choice = << "3" >> -> Path("account", EmptyStr, "affiliate")

AccountResponses == {"success", "http", "neterr", "badjson"}

\* show_extras_menu up to its "Return to extras menu?" prompt (main.py 1841-1869)
ExtrasChoice ==
    /\ pc = "interactive"
    /\ Top.fn = "show_extras_menu" /\ Top.at = "choice"
    /\ Affordable(1)
    /\ consumed' = consumed + 1
    /\ \E line \in ExtrasLines :
         /\ last' = Typed("extras", line)
         /\ LET choice == strip(line)
            IN  IF choice \in {<< "1" >>, << "2" >>, << "3" >>}
                THEN \E kind \in AccountResponses :
                       /\ reqs' = Append(reqs,
                             Sent(Request("GET", AccountPath(choice), << >>, Top.api_key),
                                  kind))
                       /\ calls' = calls
                       /\ IF kind \in {"neterr", "badjson"}
                          THEN Crash
                          ELSE /\ out' = Append(out, IF kind = "success" THEN "account"
                                                     ELSE "error")
                               /\ stack' = SetTop([Top EXCEPT !.at = "continue"])
                               /\ UNCHANGED << pc, exitCode >>
                ELSE IF choice = << "4" >>
                THEN /\ stack' = Push2([Top EXCEPT !.at = "continue"],
                                       Frame("main", BackToMainKey(Top.api_key, API_KEY[1]),
                                             "request_data"))
                     /\ calls' = Append(calls, "main")
                     /\ UNCHANGED << reqs, out, pc, exitCode >>
                ELSE /\ out' = Append(out, "invalid")
                     /\ stack' = SetTop([Top EXCEPT !.at = "continue"])
                     /\ UNCHANGED << reqs, pc, exitCode, calls >>
    /\ UNCHANGED << entry, args, env, API_KEY, api_key, call, found, svc, shown >>

\* the "Return to extras menu? (y/n)" prompt (main.py 1871-1874)
ExtrasContinue ==
    /\ pc = "interactive"
    /\ Top.fn = "show_extras_menu" /\ Top.at = "continue"
    /\ Affordable(1)
    /\ consumed' = consumed + 1
    /\ \E line \in ContinueLines :
         /\ last' = Typed("continue", line)
         /\ LET continue_choice == lower(strip(line))
            IN  IF continue_choice = << "y" >>
                THEN /\ stack' = Push2([Top EXCEPT !.at = "return"],
                                       Frame("show_extras_menu", Top.api_key, "choice"))
                     /\ calls' = Append(calls, "show_extras_menu")
                     /\ UNCHANGED << pc, exitCode >>
                ELSE Returns /\ calls' = calls
    /\ UNCHANGED << entry, args, env, API_KEY, api_key, call, found, svc, reqs, out,
                    shown >>

\* input() at the end of the input raises EOFError, which nothing catches
\* (main.py 1849, 1872, 1898, 1908)
EndOfInput ==
    /\ pc = "interactive"
    /\ Top.at \in {"menu", "choice", "continue"}
    /\ Crash
    /\ UNCHANGED << entry, args, env, API_KEY, api_key, call, found, svc, reqs,
                    consumed, last, shown, calls >>

Next ==
    \/ GetApiKeyAction
    \/ GetApiKeyReturn
    \/ FindKvmServer
    \/ FindDomain
    \/ ControlKvmServer
    \/ HandleBackupRequest
    \/ HandleTraffic
    \/ HandleMonitoring
    \/ HandleDdos
    \/ InstallAutomations
    \/ HandleDnsRemove
    \/ HandleDnsAdd
    \/ HandleDnsEdit
    \/ HandleDnsList
    \/ EnterMain
    \/ RequestData
    \/ Menu
    \/ ExtrasChoice
    \/ ExtrasContinue
    \/ EndOfInput

Spec == Init /\ [][Next]_vars

\* the process is a single thread that takes its next step whenever it has one
FairSpec == Spec /\ WF_vars(Next)

\* the invocations -dns add -t a --add <value> and -dns edit -t a --edit <value>
DnsValueArgs ==
    {[NoArgs EXCEPT !.dns = Some("add"), !.target = Some(IdA), !.add = Some(v)] :
        v \in ValueStrings}
    \cup {[NoArgs EXCEPT !.dns = Some("edit"), !.target = Some(IdA), !.edit = Some(v)] :
              v \in ValueStrings}

DnsInit ==
    /\ args \in DnsValueArgs
    /\ env = NoArg
    /\ entry = "main.py"
    /\ Fresh

DnsNext ==
    \/ GetApiKeyAction
    \/ FindDomain
    \/ HandleDnsAdd
    \/ HandleDnsEdit

\* the runs of -dns add and -dns edit over the longer values
DnsSpec == DnsInit /\ [][DnsNext]_vars

(***************************************************************************)
(* Properties.                                                             *)
(***************************************************************************)
\* the record matches the identifier by name or by internal_id
Matches(r, x) == r.name = x \/ r.internal_id = x
\* positions of the records of a list that match x
MatchesIn(list, x) == {k \in 1..Len(list) : Matches(list[k], x)}
Tagged(r, t) == [name |-> r.name, internal_id |-> r.internal_id, type |-> t]

\* requests to a /kvm, /domain or /webspace endpoint
IsResourceReq(s) == s.req.path.res \in {"kvm", "domain", "webspace"}
ResourceReqs == SelectSeq(reqs, IsResourceReq)

NoRequestAndExitNonZero ==
    /\ reqs = << >>
    /\ pc \in {"get_api_key", "done"}
    /\ pc = "done" => exitCode > 0

PowerFlags == {"start", "stop", "restart"}
\* the invocation gives power flag f a value, and no other power flag one
OnlyPower(f) == Truthy(args[f]) /\ \A g \in PowerFlags \ {f} : ~Truthy(args[g])
IsPowerPost(r, id, mode) ==
    /\ r.method = "POST"
    /\ r.path = Path("kvm", id, "power")
    /\ r.body = << << "mode", << mode >> >> >>

\* C1 as stated: for every KVM entry (n, i) of the service list, the power flag
\* given n or i issues exactly one POST /kvm/{i}/power with the flag's mode, and
\* no other /kvm, /domain or /webspace request
C1_AnyMatchingEntry ==
    \A f \in PowerFlags :
        (OnlyPower(f) /\ pc = "done" /\ svc.kind = "ok") =>
            \A k \in MatchesIn(svc.services["KVM"], args[f][1]) :
                /\ Len(ResourceReqs) = 1
                /\ IsPowerPost(ResourceReqs[1].req,
                               svc.services["KVM"][k].internal_id, f)

\* C1 amended: the one POST goes to the first KVM entry whose name or internal_id
\* equals the flag's value; without such an entry no resource request is issued
C1_FirstMatchingEntry ==
    \A f \in PowerFlags :
        (OnlyPower(f) /\ pc = "done" /\ svc.kind = "ok") =>
            LET kvm == svc.services["KVM"]
                m == MatchesIn(kvm, args[f][1])
            IN  IF m = {} THEN ResourceReqs = << >>
                ELSE LET k == CHOOSE i \in m : \A j \in m : i <= j
                     IN  /\ Len(ResourceReqs) = 1
                         /\ IsPowerPost(ResourceReqs[1].req, kvm[k].internal_id, f)

\* two KVM entries with different ids match the value and the POST has been sent
C1_TwoMatchesPosted ==
    \E f \in PowerFlags :
        /\ OnlyPower(f) /\ pc = "done" /\ svc.kind = "ok"
        /\ Len(svc.services["KVM"]) = 2
        /\ MatchesIn(svc.services["KVM"], args[f][1]) = {1, 2}
        /\ svc.services["KVM"][1].internal_id # svc.services["KVM"][2].internal_id
        /\ Len(ResourceReqs) = 1

\* the type a handler's resolver is restricted to
RequiredType == IF call.fn \in KvmHandlers THEN "KVM" ELSE "DOMAIN"
\* a handler's resolver has scanned a 200 answer
Resolved == pc \in {"request", "done"} /\ call.fn # "" /\ svc.kind = "ok"

C3_TypedResolution ==
    found # NoRec =>
        /\ found[1].type = RequiredType
        /\ \E k \in 1..Len(svc.services[RequiredType]) :
               found = Some(Tagged(svc.services[RequiredType][k], RequiredType))

\* a KVM record was returned while a WEBSPACE or DOMAIN record matches as well
C3_FoundBesideOtherType ==
    /\ found # NoRec /\ call.fn \in KvmHandlers
    /\ MatchesIn(svc.services["WEBSPACE"] \o svc.services["DOMAIN"], call.ident) # {}

\* the invocation is -dns add -t <domain>, with no flag of higher priority
DnsAddInvocation ==
    Branch(args) = "dns" /\ args.dns = Some("add") /\ Truthy(args.target)
\* comma-separated fields of a value
Fields(v) == Cardinality({i \in 1..Len(v) : v[i] = ","}) + 1
AddFields == IF args.add = NoArg THEN 0 ELSE Fields(args.add[1])

\* C4 as stated: an --add value that is absent or has fewer or more than 3
\* comma-separated fields leads to no HTTP request and a non-zero exit
C4_NotExactlyThree ==
    (DnsAddInvocation /\ AddFields # 3) => NoRequestAndExitNonZero

\* C4 amended: an --add value that is absent, empty or has fewer than 3 fields
\* leads to no HTTP request and a non-zero exit; a value of 3 or more fields is
\* handed to handle_dns_add, which starts with the services request
C4_FewerThanThree ==
    DnsAddInvocation =>
        /\ (AddFields < 3 \/ ~Truthy(args.add)) => NoRequestAndExitNonZero
        /\ (AddFields >= 3 /\ pc # "get_api_key") =>
               /\ call.fn = "handle_dns_add"
               /\ pc = "done" => reqs # << >>

\* a value of two fields was rejected
C4_TwoFieldsRejected ==
    DnsAddInvocation /\ AddFields = 2 /\ pc = "done" /\ exitCode = 1

\* --backup restore or delete without a --backup-id value
BackupNoId ==
    /\ args.backup # NoArg
    /\ args.backup[1] \in {"restore", "delete"}
    /\ ~Truthy(args.backup_id)

\* C5 as stated: restore/delete without --backup-id issues no HTTP request and
\* exits non-zero whatever other flags accompany it
C5_WhateverOtherFlags == BackupNoId => NoRequestAndExitNonZero

\* C5 amended: the same, provided no power flag carries a non-empty value
C5_UnlessPowerFlag ==
    (BackupNoId /\ \A f \in PowerFlags : ~Truthy(args[f])) => NoRequestAndExitNonZero

\* restore/delete with a target and without a backup id was rejected
C5_MissingIdRejected ==
    /\ BackupNoId /\ Truthy(args.target)
    /\ \A f \in PowerFlags : ~Truthy(args[f])
    /\ pc = "done" /\ exitCode = 1

\* C6: after a non-200 answer to GET /account/services no further request is
\* issued and the invocation has ended; in action mode the resolver returned nothing
C6_Non200Terminates ==
    \A k \in 1..Len(reqs) :
        (reqs[k].req.path = ServicesPath /\ reqs[k].resp \in {"http", "httpraw"}) =>
            /\ k = Len(reqs)
            /\ pc = "done"
            /\ found = NoRec

\* an interactive run ended on a non-200 services answer
C6_InteractiveNon200 ==
    /\ API_KEY # NoArg /\ pc = "done" /\ reqs # << >>
    /\ reqs[Len(reqs)].req.path = ServicesPath
    /\ reqs[Len(reqs)].resp \in {"http", "httpraw"}

TargetActions == {"backup", "traffic", "monitoring", "install", "dns", "ddos"}

\* C7: an invocation selecting backup, traffic, monitoring, install, dns or ddos
\* without a --target value prints the error and usage hint, issues no HTTP
\* request and exits non-zero
C7_TargetRequired ==
    (Branch(args) \in TargetActions /\ ~Truthy(args.target)) =>
        /\ NoRequestAndExitNonZero
        /\ pc = "done" => out = << "error", "usage" >>

\* --ddos without a target value was rejected
C7_DdosWithoutTarget ==
    Branch(args) = "ddos" /\ ~Truthy(args.target) /\ pc = "done" /\ exitCode = 1

ErrorMessages == {"not_found", "find_error", "error", "network_error",
                  "parse_error", "traceback", "invalid_format"}

\* C8 as stated: in action mode a run that ended with an error outcome (target not
\* found, upstream error, network error, malformed body) has a non-zero exit code
C8_ErrorsExitNonZero ==
    (call.fn # "" /\ pc = "done" /\ \E i \in 1..Len(out) : out[i] \in ErrorMessages)
        => exitCode > 0

\* the key the stated order yields for the invocation
ExpectedKey ==
    IF args.api_key # NoArg /\ args.api_key[1] # EmptyStr THEN args.api_key[1]
    ELSE IF env # NoArg /\ env[1] # EmptyStr THEN env[1]
    ELSE NoneKey

\* C9: every request of an invocation, in every action branch and in interactive
\* mode, carries the --api-key value if given, else FIRE_API_KEY if set, else "None"
C9_KeyOrder == \A k \in 1..Len(reqs) : reqs[k].req.key = ExpectedKey

\* an action request was sent with the flag's key while FIRE_API_KEY is set too
C9_FlagBeatsEnv ==
    /\ Branch(args) # "none" /\ Truthy(args.api_key) /\ Truthy(env)
    /\ reqs # << >> /\ reqs[1].req.key = KeyFlag

\* C10: every request of an interactive run, those after extras option 4
\* included, carries the key main was started with
C10_KeyOfRun ==
    API_KEY # NoArg =>
        /\ \A k \in 1..Len(reqs) : reqs[k].req.key = API_KEY[1]
        /\ \A i \in 1..Len(stack) : stack[i].api_key = API_KEY[1]
        /\ stack # << >> =>
               \A k \in 1..Len(reqs) : reqs[k].req.key = stack[1].api_key

\* main was entered again through extras option 4 and fetched the services
C10_RequestAfterBackToMain ==
    /\ API_KEY = Some(KeyFlag)
    /\ \E k \in 2..Len(reqs) : reqs[k].req.path = ServicesPath

\* an action flag is present; a power flag counts when its value is non-empty
ActionFlagPresent ==
    \/ \E f \in PowerFlags : Truthy(args[f])
    \/ args.backup # NoArg \/ args.traffic # NoArg \/ args.monitoring # NoArg
    \/ args.install \/ args.dns # NoArg \/ args.ddos

\* the handler functions of each action
HandlersOf ==
    [power |-> {"control_kvm_server"}, backup |-> {"handle_backup_request"},
     traffic |-> {"handle_traffic"}, monitoring |-> {"handle_monitoring"},
     install |-> {"install_automations"}, dns |-> DnsHandlers,
     ddos |-> {"handle_ddos"}]
\* the action a resource path belongs to
ActionOfPath(p) ==
    CASE p.sub = "power" -> "power"
      [] p.sub \in {"backup/list", "backup/create", "backup/restore", "backup/delete"} ->
           "backup"
      [] p.sub \in {"traffic/current", "traffic/log"} -> "traffic"
      [] p.sub \in {"monitoring/incidences", "monitoring/timings"} -> "monitoring"
      [] p.sub = "ddos" -> "ddos"
      [] p.sub \in {"dns", "dns/add", "dns/edit", "dns/remove"} -> "dns"
      [] OTHER -> "info"
\* the actions of which something has run: a handler call or a request
ActionsRun ==
    {a \in DOMAIN HandlersOf :
        \/ call.fn \in HandlersOf[a]
        \/ \E k \in 1..Len(reqs) :
             IsResourceReq(reqs[k]) /\ ActionOfPath(reqs[k].req.path) = a}

\* C11 amended: with an action flag present at most one action handler runs (one
\* when the selected action's arguments are valid, none when they are rejected
\* with exit 1) and main with its menu is never entered; without one no handler
\* runs, main is entered and its menu lists every service of the 200 answer
C11_OneHandlerOrMenu ==
    /\ ActionFlagPresent =>
         /\ API_KEY = NoArg /\ stack = << >> /\ last = NoLine
         /\ pc \in {"get_api_key", "find", "request", "done"}
         /\ Cardinality(ActionsRun) <= 1
         /\ Len(ResourceReqs) <= 1
         /\ pc # "get_api_key" =>
              \/ Cardinality(ActionsRun) = 1
              \/ call = NoCall /\ pc = "done" /\ exitCode = 1 /\ reqs = << >>
    /\ ~ActionFlagPresent =>
         /\ call = NoCall /\ found = NoRec /\ ActionsRun = {}
         /\ pc \in {"get_api_key", "loaded", "interactive", "done"}
         /\ pc # "get_api_key" => API_KEY # NoArg
         /\ pc = "interactive" => (stack # << >> /\ stack[1].fn = "main")
         /\ pc = "done" => (reqs # << >> /\ reqs[1].req.path = ServicesPath)
         /\ (pc = "interactive" /\ Top.fn = "main" /\ Top.at = "menu") =>
              Top.data = extract_services(svc.services)

\* C11 as stated: whenever an action flag is present exactly one action handler
\* has run by the end of the invocation
C11_ExactlyOneHandler ==
    (ActionFlagPresent /\ pc = "done") => Cardinality(ActionsRun) = 1

\* -s and --ddos were given together and only the power handler ran
C11_TwoFlagsOneHandler ==
    /\ Truthy(args.stop) /\ args.ddos /\ pc = "done"
    /\ ActionsRun = {"power"} /\ Len(reqs) = 2

\* the menu over a non-empty service list has just been answered
MenuAnswered ==
    last.prompt = "menu" /\ svc.kind = "ok" /\ extract_services(svc.services) # << >>

\* C12 as stated: "0" opens the extras menu, a digit string with 1 <= n <= L
\* fetches the n-th listed service, any other line prints the invalid-selection
\* message and issues no further request
C12_MenuLineDecides ==
    MenuAnswered =>
        LET data == extract_services(svc.services)
            u == strip(last.line)
        IN  IF u = << "0" >>
            THEN stack # << >> /\ Top.fn = "show_extras_menu" /\ Top.at = "choice"
            ELSE IF isdecimal(u) /\ 1 <= int(u) /\ int(u) <= Len(data)
            THEN /\ reqs[Len(reqs)].req.method = "GET"
                 /\ reqs[Len(reqs)].req.path = InfoPath(data[int(u)])
            ELSE /\ out # << >> /\ out[Len(out)] = "invalid"
                 /\ reqs[Len(reqs)].req.path = ServicesPath

\* the last request is an action or info request answered by a non-200 status or by
\* a status other than "success", and nothing was read or requested since
UpstreamErrorLast ==
    /\ reqs # << >>
    /\ IsResourceReq(reqs[Len(reqs)])
    /\ reqs[Len(reqs)].resp \in {"apifail", "http"}
    /\ \/ call.fn # "" /\ pc = "done"
       \/ last.prompt = "menu"

\* C13 as stated: after a non-200 answer or a status other than "success" the
\* message is printed and no result is formatted, the interactive fetch included
C13_ResultOnlyOnSuccess ==
    UpstreamErrorLast => (out # << >> /\ out[Len(out)] = "error")

\* the lookup of a handler failed: no record matches, or the answer is no usable list
LookupFailed ==
    /\ call.fn # "" /\ pc \in {"request", "done"}
    /\ \/ svc.kind \in {"http", "httpraw", "neterr", "badjson"}
       \/ svc.kind = "ok" /\ MatchesIn(svc.services[RequiredType], call.ident) = {}

\* C14: in all four failure cases of the lookup the resolver returns no record and
\* raises nothing, the handler prints "not found" and issues no action request
C14_LookupFailuresAlike ==
    LookupFailed =>
        /\ found = NoRec
        /\ pc = "done" /\ exitCode = 0
        /\ Len(reqs) = 1 /\ reqs[1].req.path = ServicesPath
        /\ out[Len(out)] = "not_found"
        /\ \A i \in 1..Len(out) : out[i] # "traceback"

\* the services body could not be decoded and the handler returned without a request
C14_BadBodyNotFound ==
    /\ call.fn \in KvmHandlers /\ svc.kind = "badjson" /\ pc = "done"
    /\ found = NoRec /\ Len(reqs) = 1

\* C15: an action-mode invocation requests /account/services at most once and its
\* action endpoint at most once, two requests at most, whatever the answers
C15_NoRetry ==
    ActionFlagPresent =>
        /\ Len(reqs) <= 2
        /\ Len(ResourceReqs) <= 1
        /\ Cardinality({k \in 1..Len(reqs) : reqs[k].req.path = ServicesPath}) <= 1
        /\ \A j, k \in 1..Len(reqs) : reqs[j].req = reqs[k].req => j = k

\* the action request failed in transport and the run ended after two requests
C15_FailedOnceEnded ==
    /\ ActionFlagPresent /\ pc = "done"
    /\ Len(reqs) = 2 /\ reqs[2].resp = "neterr"

\* the backup branch ran its handler on a resolved server and the run is over
BackupRequested ==
    /\ Branch(args) = "backup" /\ pc = "done"
    /\ found # NoRec /\ Len(reqs) = 2

\* C16: for a resolved KVM server with internal_id i the backup request is
\* list: GET backup/list, create: POST backup/create (both without body),
\* restore: POST backup/restore, delete: DELETE backup/delete (both with
\* backup_id = the --backup-id value), each under /kvm/{i}/
C16_BackupTable ==
    BackupRequested =>
        LET r == reqs[2].req
            i == found[1].internal_id
            action == args.backup[1]
            id_body == << << "backup_id", args.backup_id[1] >> >>
        IN  /\ found[1].type = "KVM"
            /\ action = "list" =>
                 r.method = "GET" /\ r.path = Path("kvm", i, "backup/list") /\ r.body = << >>
            /\ action = "create" =>
                 r.method = "POST" /\ r.path = Path("kvm", i, "backup/create")
                 /\ r.body = << >>
            /\ action = "restore" =>
                 r.method = "POST" /\ r.path = Path("kvm", i, "backup/restore")
                 /\ r.body = id_body
            /\ action = "delete" =>
                 r.method = "DELETE" /\ r.path = Path("kvm", i, "backup/delete")
                 /\ r.body = id_body

\* a restore request with its backup id was sent
C16_RestoreSent ==
    BackupRequested /\ args.backup[1] = "restore" /\ args.backup_id = Some(BackupId)

\* the dns branch ran its handler on a resolved domain and the run is over
DnsRequested ==
    /\ Branch(args) = "dns" /\ pc = "done"
    /\ found # NoRec /\ Len(reqs) = 2

\* the keys of a form body, in order
Keys(body) == [k \in 1..Len(body) |-> body[k][1]]

\* C17: for a resolved domain with internal_id i the DNS request is
\* no value: GET /domain/{i}/dns, add: PUT dns/add with type, name, data,
\* edit: POST dns/edit with record_id, type, name, data, remove: DELETE dns/remove
\* with record_id; i is always the id of a record of the DOMAIN sub-list, and a
\* target matching only KVM or WEBSPACE records leads to no DNS request
C17_DnsTable ==
    /\ DnsRequested =>
         LET r == reqs[2].req
             i == found[1].internal_id
             action == args.dns[1]
         IN  /\ \E k \in MatchesIn(svc.services["DOMAIN"], args.target[1]) :
                    svc.services["DOMAIN"][k].internal_id = i
             /\ r.path.res = "domain" /\ r.path.id = i
             /\ action = "" => r.method = "GET" /\ r.path.sub = "dns" /\ r.body = << >>
             /\ action = "add" =>
                  r.method = "PUT" /\ r.path.sub = "dns/add"
                  /\ Keys(r.body) = << "type", "name", "data" >>
             /\ action = "edit" =>
                  r.method = "POST" /\ r.path.sub = "dns/edit"
                  /\ Keys(r.body) = << "record_id", "type", "name", "data" >>
             /\ action = "remove" =>
                  r.method = "DELETE" /\ r.path.sub = "dns/remove"
                  /\ r.body = << << "record_id", args.remove[1] >> >>
    /\ (Branch(args) = "dns" /\ svc.kind = "ok" /\ Truthy(args.target)
        /\ MatchesIn(svc.services["DOMAIN"], args.target[1]) = {}) =>
         ResourceReqs = << >>

\* the records of a domain were requested while a KVM or WEBSPACE record matches
\* the target as well
C17_ListBesideOtherType ==
    /\ DnsRequested /\ args.dns[1] = ""
    /\ MatchesIn(svc.services["KVM"] \o svc.services["WEBSPACE"], args.target[1]) # {}

\* the install branch is the one selected
InstallSelected == Branch(args) = "install"

\* C18 as stated: every invocation with --install and a target prints the "not
\* finished" message and exits, for all targets and all answers to the services
\* request
C18_AlwaysNotFinished ==
    (InstallSelected /\ Truthy(args.target) /\ pc = "done") =>
        \E i \in 1..Len(out) : out[i] = "not_finished"

\* C18 amended: when install is the selected action no installation step is ever
\* reached and no request besides the lookup is issued; the "not finished" message
\* and exit 0 follow exactly when the target resolves to a KVM server, a missing
\* target gives the usage hint and exit 1, an unresolved one "not found" and exit 0
C18_NotFinishedWhenResolved ==
    InstallSelected =>
        /\ Len(reqs) <= 1 /\ ResourceReqs = << >>
        /\ \A i \in 1..Len(out) :
               out[i] \in {"error", "usage", "find_error", "not_found", "not_finished"}
        /\ pc = "done" =>
             IF ~Truthy(args.target)
             THEN exitCode = 1 /\ out = << "error", "usage" >> /\ reqs = << >>
             ELSE IF found # NoRec
             THEN exitCode = 0 /\ out = << "not_finished" >>
             ELSE exitCode = 0 /\ out[Len(out)] = "not_found"

\* the server was found and the installation stopped with "not finished"
C18_FoundNotFinished ==
    InstallSelected /\ pc = "done" /\ found # NoRec /\ out = << "not_finished" >>

\* the invocation is -dns edit -t <domain>, with no flag of higher priority
DnsEditInvocation ==
    Branch(args) = "dns" /\ args.dns = Some("edit") /\ Truthy(args.target)
EditFields == IF args.edit = NoArg THEN 0 ELSE Fields(args.edit[1])

\* C20: an --edit value that is absent or has fewer than four comma-separated
\* fields leads to no HTTP request and a non-zero exit
C20_EditNeedsFour ==
    (DnsEditInvocation /\ EditFields < 4) => NoRequestAndExitNonZero

\* a value of three fields was rejected
C20_ThreeFieldsRejected ==
    DnsEditInvocation /\ EditFields = 3 /\ pc = "done" /\ exitCode = 1

\* a successful traffic/current answer with usage.total = 12.5 and
\* limit.monthly = 1000 has been formatted
TrafficExampleShown ==
    /\ call.fn = "handle_traffic" /\ call.arg = "usage" /\ pc = "done"
    /\ Len(reqs) = 2 /\ reqs[2].resp = "success"
    /\ shown.data = [total10 |-> JsonNum(125), monthly |-> JsonNum(1000)]

\* C19 as stated: for usage.total = 12.5 and limit.monthly = 1000 the formatter
\* prints the percentage with two decimals, 1.25, and a progress bar
C19_PercentTwoDecimals ==
    TrafficExampleShown =>
        /\ shown.percent = << Fixed(1, 25, 2) >>
        /\ shown.bar # << >>

\* the first position of a list whose record matches x
FirstMatch(list, x) == CHOOSE i \in MatchesIn(list, x) : \A j \in MatchesIn(list, x) : i <= j

\* C21: when several records of the scanned list match the identifier, by name or
\* by internal_id, the resolver returns the first of them in list order and the
\* action request goes to that record's internal_id
C21_FirstMatchWins ==
    (Resolved /\ Cardinality(MatchesIn(svc.services[RequiredType], call.ident)) > 1) =>
        LET list == svc.services[RequiredType]
            first == list[FirstMatch(list, call.ident)]
        IN  /\ found = Some(Tagged(first, RequiredType))
            /\ \A k \in 1..Len(reqs) :
                   IsResourceReq(reqs[k]) => reqs[k].req.path.id = first.internal_id

\* the first DOMAIN record matches by name and the second, with another id, by
\* internal_id, and the DNS request has been sent
C21_NameThenIdRequested ==
    /\ DnsRequested
    /\ Len(svc.services["DOMAIN"]) = 2
    /\ svc.services["DOMAIN"][1].name = call.ident
    /\ svc.services["DOMAIN"][1].internal_id # call.ident
    /\ svc.services["DOMAIN"][2].internal_id = call.ident
    /\ reqs[2].req.path.id = svc.services["DOMAIN"][1].internal_id

\* how often each function has been called, and the services requests issued
CallsOf(fns) == Cardinality({k \in 1..Len(calls) : calls[k] \in fns})
ServicesGets ==
    Cardinality({k \in 1..Len(reqs) :
                    reqs[k].req.method = "GET" /\ reqs[k].req.path = ServicesPath})
\* main has been entered and has not yet executed its first statement, request_data
MainAtEntry ==
    IF pc = "interactive" /\ Top.fn = "main" /\ Top.at = "request_data" THEN 1 ELSE 0

\* C22: the service list is never cached: every resolver call and every entry
\* into main, re-entry through extras option 4 included, issues its own
\* GET /account/services, so their number is the number of resolver calls plus
\* the number of main entries
C22_NoCaching ==
    ServicesGets + MainAtEntry
        = CallsOf({"find_kvm_server", "find_domain"}) + CallsOf({"main"})

\* main was entered a second time through option 4 and requested the list again
C22_SecondEntryFetched ==
    /\ CallsOf({"main"}) = 2 /\ ServicesGets = 2
    /\ last = Typed("extras", << "4" >>)

\* positions of the frames whose "Return to extras menu?" prompt is still to come
Pending(stk) == {i \in 1..Len(stk) : stk[i].at = "continue"}
\* the step reads a line at the given prompt of the top frame
Reads(fn, at) ==
    pc = "interactive" /\ Top.fn = fn /\ Top.at = at /\ consumed' = consumed + 1
\* the step calls fn from the top frame: one frame more, one call more
Nests(fn) ==
    /\ Len(stack') = Len(stack) + 1
    /\ stack'[Len(stack')].fn = fn
    /\ calls' = Append(calls, fn)
    /\ pc' = "interactive"
\* the line is taken as a yes by the "Return to extras menu?" prompt
IsYes(line) == lower(strip(line)) = << "y" >>

\* what a step of the interactive session does to the nesting
NestingStep ==
    /\ Len(stack') <= Len(stack) + 1
    /\ Len(stack') > Len(stack) => Len(calls') = Len(calls) + 1
    /\ (Reads("show_extras_menu", "continue") /\ IsYes(last'.line)) =>
           Nests("show_extras_menu")
    /\ (Reads("show_extras_menu", "choice") /\ strip(last'.line) = << "4" >>) =>
           Nests("main") /\ stack'[Len(stack)].at = "continue"
    /\ (Reads("show_extras_menu", "continue") /\ ~IsYes(last'.line)) =>
           LET below == Pending(SubSeq(stack, 1, Len(stack) - 1))
           IN  IF below = {}
               THEN stack' = << >> /\ pc' = "done" /\ exitCode' = 0
               ELSE /\ pc' = "interactive"
                    /\ Len(stack') = CHOOSE i \in below : \A j \in below : j <= i
                    /\ stack' = SubSeq(stack, 1, Len(stack'))
    /\ (pc = "interactive" /\ Top.fn = "main" /\ Len(stack') < Len(stack)
        /\ Len(stack) > 1) =>
           /\ stack' = SubSeq(stack, 1, Len(stack) - 1)
           /\ stack'[Len(stack')].fn = "show_extras_menu"
           /\ stack'[Len(stack')].at = "continue"
           /\ pc' = "interactive"

\* C23: the interactive session is single-shot apart from the extras re-prompt.
\* Every session terminates, the input being finite; it ends with the answer
\* that leaves no "Return to extras menu?" prompt pending, an answer counting as
\* 'y' after strip and lower; each 'y' answer and each option-4 choice adds
\* exactly one nested call (show_extras_menu or main); and when a nested main
\* started by option 4 returns, the enclosing extras menu is at its "Return to
\* extras menu?" prompt
C23_SingleShot ==
    /\ [][NestingStep]_vars
    /\ [](pc = "interactive" =>
             /\ stack # << >> /\ Top.at \in {"request_data", "menu", "choice", "continue"}
             /\ \A i \in 1..Len(stack) - 1 : stack[i].at \in {"continue", "return"}
             /\ \A i \in 2..Len(stack) :
                    stack[i].fn = "main" =>
                        stack[i - 1].fn = "show_extras_menu" /\ stack[i - 1].at = "continue")
    /\ <>(pc = "done")

\* a main started by option 4 has returned to the extras menu, whose prompt is
\* the next thing asked
C23_NestedMainReturned ==
    /\ pc = "interactive" /\ CallsOf({"main"}) = 2
    /\ last.prompt = "menu" /\ Len(stack) = 2
    /\ Top.fn = "show_extras_menu" /\ Top.at = "continue"

\* the requests issued since the last GET /account/services
SinceServices ==
    LET gets == {k \in 1..Len(reqs) : reqs[k].req.path = ServicesPath}
        k0 == CHOOSE k \in gets : \A j \in gets : j <= k
    IN  SubSeq(reqs, k0 + 1, Len(reqs))

\* the menu has just been answered with the number of a listed service
NumericChoice ==
    /\ MenuAnswered
    /\ isdecimal(strip(last.line))
    /\ 1 <= int(strip(last.line))
    /\ int(strip(last.line)) <= Len(extract_services(svc.services))

\* C24: for an interactive numeric choice of a service with internal_id i exactly
\* one GET is issued, to /kvm/{i}/config for a KVM, /webspace/{i} for a WEBSPACE
\* and /domain/{i} for a DOMAIN service; for a service of any other type no
\* request is issued
C24_InfoPathByType ==
    NumericChoice =>
        LET service == extract_services(svc.services)[int(strip(last.line))]
            i == service.internal_id
        IN  IF service.type \in {"KVM", "WEBSPACE", "DOMAIN"}
            THEN /\ Len(SinceServices) = 1
                 /\ SinceServices[1].req.method = "GET"
                 /\ SinceServices[1].req.body = << >>
                 /\ SinceServices[1].req.path =
                        CASE service.type = "KVM" -> Path("kvm", i, "config")
                          [] service.type = "WEBSPACE" -> Path("webspace", i, "")
                          [] service.type = "DOMAIN" -> Path("domain", i, "")
            ELSE SinceServices = << >>

\* the second listed service, a DOMAIN beside a KVM server, was chosen and fetched
C24_SecondIsDomain ==
    /\ NumericChoice /\ strip(last.line) = << "2" >>
    /\ Len(svc.services["KVM"]) = 1 /\ Len(svc.services["DOMAIN"]) = 1
    /\ Len(SinceServices) = 1
    /\ SinceServices[1].req.path.res = "domain"

\* C25: in every action-mode run the events occur in the order validate ->
\* GET /account/services -> action request -> print -> exit: nothing is requested
\* before the arguments are validated, no action request is issued before the
\* lookup has returned, an action request is issued only if the lookup returned a
\* record, its path carries the internal_id of that record, nothing is requested
\* after it, and nothing happens after the exit
C25_EventOrder ==
    /\ [](ActionFlagPresent =>
             /\ reqs # << >> =>
                  /\ reqs[1].req = GetServices(api_key)
                  /\ call # NoCall /\ call = Dispatch(args).call
                  /\ pc \in {"request", "done"}
             /\ (pc # "get_api_key" /\ Dispatch(args).call = NoCall) =>
                  reqs = << >> /\ pc = "done" /\ out = Dispatch(args).out
             /\ \A k \in 1..Len(reqs) :
                    IsResourceReq(reqs[k]) =>
                        /\ k = 2 /\ k = Len(reqs)
                        /\ reqs[1].resp = "ok"
                        /\ found # NoRec
                        /\ reqs[k].req.path.id = found[1].internal_id
                        /\ pc = "done" /\ exitCode \in {0, 1}
             /\ pc = "request" => (found # NoRec /\ Len(reqs) = 1 /\ exitCode = -1))
    /\ [][ActionFlagPresent =>
             /\ pc # "done"
             /\ reqs' # reqs => \E x \in {reqs'[Len(reqs')]} : reqs' = Append(reqs, x)
             /\ (out' # out /\ pc = "request") =>
                  /\ pc' = "done"
                  /\ call.fn # "install_automations" => reqs' # reqs
             /\ pc' = "done" => exitCode' \in {0, 1}]_vars

\* the traffic request went to the second KVM record, the only one matching, whose
\* name differs from its internal_id
C25_SecondRecordRequested ==
    /\ Branch(args) = "traffic" /\ pc = "done" /\ Len(reqs) = 2
    /\ Len(svc.services["KVM"]) = 2
    /\ found = Some(Tagged(svc.services["KVM"][2], "KVM"))
    /\ found[1].name # found[1].internal_id
    /\ reqs[2].req.path.id = found[1].internal_id

\* the stated priority of the action flags
Priority == << "start", "stop", "restart", "backup", "traffic", "monitoring",
              "install", "dns", "ddos" >>

\* the flag is on the command line with a value that is not the empty string
GivenNonEmpty(f) ==
    CASE f \in PowerFlags -> Truthy(args[f])
      [] f \in {"backup", "traffic", "monitoring"} -> args[f] # NoArg
      [] f \in {"install", "ddos"} -> args[f]
      [] f = "dns" -> args.dns # NoArg /\ args.dns[1] # ""

\* the same, except that -dns counts with an empty value (or none) as well
GivenOrBareDns(f) == IF f = "dns" THEN args.dns # NoArg ELSE GivenNonEmpty(f)

\* the first flag in priority order that counts as given, "none" without one
Selected(Given(_)) ==
    LET idx == {i \in 1..Len(Priority) : Given(Priority[i])}
    IN  IF idx = {} THEN "none"
        ELSE Priority[CHOOSE i \in idx : \A j \in idx : i <= j]

\* what the branch of flag f alone decides: its validation and its handler call
BranchOf(f) ==
    CASE f \in PowerFlags -> PowerBranch(args)
      [] f = "backup" -> BackupBranch(args)
      [] f = "traffic" -> TrafficBranch(args)
      [] f = "monitoring" -> MonitoringBranch(args)
      [] f = "install" -> InstallBranch(args)
      [] f = "dns" -> DnsBranch(args)
      [] f = "ddos" -> DdosBranch(args)

\* the run did what the flag sel alone asks for: only its validation reported,
\* only its handler called; without a flag the key is returned for the menu
RunsOnly(sel) ==
    pc # "get_api_key" =>
        IF sel = "none"
        THEN call = NoCall /\ API_KEY # NoArg /\ \A i \in 1..Len(out) : out[i] # "usage"
        ELSE /\ API_KEY = NoArg
             /\ sel \in PowerFlags => call.arg = sel /\ call.ident = args[sel][1]
             /\ IF BranchOf(sel).call = NoCall
                THEN call = NoCall /\ pc = "done" /\ exitCode = 1
                     /\ out = BranchOf(sel).out /\ reqs = << >>
                ELSE /\ call = BranchOf(sel).call
                     /\ \A i \in 1..Len(out) : out[i] # "usage"

\* C26 as stated: the action that runs is the first given one in the order start >
\* stop > restart > backup > traffic > monitoring > install > dns > ddos, flags of
\* lower priority are ignored together with their validation, and a flag given
\* with an empty-string value counts as absent
C26_EmptyValueAbsent == RunsOnly(Selected(GivenNonEmpty))

\* C26 amended: the same order, where an empty-string value makes a power flag
\* (start, stop, restart) count as absent, while -dns with an empty value or
\* without one is present and selects the listing of the DNS records
C26_PriorityOrder == RunsOnly(Selected(GivenOrBareDns))

\* -S x -b restore without --backup-id started x and reported nothing
C26_StartBeatsBackup ==
    /\ Truthy(args.start) /\ args.backup = Some("restore") /\ args.backup_id = NoArg
    /\ pc = "done" /\ Len(reqs) = 2
    /\ reqs[2].req.path.sub = "power" /\ reqs[2].req.body = << << "mode", << "start" >> >> >>
    /\ \A i \in 1..Len(out) : out[i] \notin {"usage", "error"} \/ i = Len(out)

\* position of the n-th comma of a value
NthComma(v, n) ==
    CHOOSE i \in 1..Len(v) :
        v[i] = "," /\ Cardinality({j \in 1..i : v[j] = ","}) = n
\* the n-th comma-separated field, and what follows the n-th comma
Piece(v, n) ==
    SubSeq(v, IF n = 1 THEN 1 ELSE NthComma(v, n - 1) + 1, NthComma(v, n) - 1)
Remainder(v, n) == SubSeq(v, NthComma(v, n) + 1, Len(v))
\* a string without the blanks around it
Trimmed(s) ==
    LET ns == {i \in 1..Len(s) : s[i] # " "}
    IN  IF ns = {} THEN << >>
        ELSE SubSeq(s, CHOOSE i \in ns : \A j \in ns : i <= j,
                    CHOOSE i \in ns : \A j \in ns : j <= i)

\* C27: an --add value of at least 3 fields is cut at its first 2 commas and an
\* --edit value of at least 4 fields at its first 3: type and name (and record_id
\* for edit) are the leading fields, data is the whole remainder with any further
\* commas, each with the surrounding whitespace stripped; the request body
\* carries exactly these values, empty ones included
C27_SplitFromLeft ==
    /\ (DnsAddInvocation /\ AddFields >= 3 /\ pc # "get_api_key") =>
         LET v == args.add[1]
             type == Trimmed(Piece(v, 1))
             name == Trimmed(Piece(v, 2))
             data == Trimmed(Remainder(v, 2))
         IN  /\ call.fn = "handle_dns_add"
             /\ call.vals = << type, name, data >>
             /\ Len(reqs) = 2 =>
                  reqs[2].req.body =
                      << << "type", type >>, << "name", name >>, << "data", data >> >>
    /\ (DnsEditInvocation /\ EditFields >= 4 /\ pc # "get_api_key") =>
         LET v == args.edit[1]
             record_id == Trimmed(Piece(v, 1))
             type == Trimmed(Piece(v, 2))
             name == Trimmed(Piece(v, 3))
             data == Trimmed(Remainder(v, 3))
         IN  /\ call.fn = "handle_dns_edit"
             /\ call.vals = << record_id, type, name, data >>
             /\ Len(reqs) = 2 =>
                  reqs[2].req.body =
                      << << "record_id", record_id >>, << "type", type >>,
                         << "name", name >>, << "data", data >> >>

\* an --add value with a blank, an empty field and more than two commas was sent,
\* its data keeping a comma
C27_DataKeepsComma ==
    /\ DnsAddInvocation /\ AddFields >= 4 /\ Len(reqs) = 2
    /\ \E i \in 1..Len(args.add[1]) : args.add[1][i] = " "
    /\ reqs[2].req.body[1][2] = << >>
    /\ \E i \in 1..Len(reqs[2].req.body[3][2]) : reqs[2].req.body[3][2][i] = ","

\* the exit status main.py ends a finished run with: 1 after an exception nothing
\* catches, after a rejected command line, after an unreadable answer to dns add
\* or edit and after request_data's sys.exit(1), otherwise 0
MainPyExit ==
    IF out # << >> /\ out[Len(out)] \in {"traceback", "usage", "invalid_format"} THEN 1
    ELSE IF ActionFlagPresent /\ call = NoCall THEN 1
    ELSE IF ~ActionFlagPresent /\ reqs # << >>
            /\ reqs[Len(reqs)].req.path = ServicesPath /\ reqs[Len(reqs)].resp = "http"
    THEN 1
    ELSE 0

\* C28 as stated: a run through launcher.py ends with the exit status the same
\* run has under main.py, the exit(1) of request_data on a failed
\* /account/services fetch in interactive mode included
C28_SameExitCode == pc = "done" => exitCode = MainPyExit

\* a successful backup listing with at least one backup has been printed
BackupsListed ==
    /\ call.fn = "handle_backup_request" /\ call.arg = "list" /\ pc = "done"
    /\ Len(reqs) = 2 /\ reqs[2].resp = "success"
    /\ shown.data # << >>

\* C29 as stated: for every list of backups the numbers the summary reports as
\* Finished, Running and Failed are the numbers of backups whose status line was
\* shown as Finished, Running and Failed, letter case notwithstanding, and
\* together they do not exceed Total Backups
C29_SummaryAgrees ==
    BackupsListed =>
        LET summary == shown.summary[1]
            ShownAs(w) == Cardinality({i \in 1..Len(shown.lines) :
                                          shown.lines[i].status = w})
        IN  /\ summary.finished = ShownAs("finished")
            /\ summary.running = ShownAs("running")
            /\ summary.failed = ShownAs("failed")
            /\ summary.finished + summary.running + summary.failed <= summary.total

\* a successful traffic/current answer has been formatted
TrafficShown ==
    /\ call.fn = "handle_traffic" /\ call.arg = "usage" /\ pc = "done"
    /\ Len(reqs) = 2 /\ reqs[2].resp = "success"

Min(a, b) == IF a < b THEN a ELSE b
Max(a, b) == IF a > b THEN a ELSE b

\* C30: for numeric total and monthly limit with monthly > 0 the progress bar has
\* exactly 30 cells of which min(30, max(0, floor(30 * total / monthly))) are
\* filled, all 30 for usage at or above the limit and none for usage below 1/30
\* of it; for a monthly limit that is 0, negative, missing or not a number
\* neither percentage nor bar is printed, and the formatter ends normally
C30_BarCells ==
    TrafficShown =>
        LET total == shown.data.total10
            monthly == shown.data.monthly
        IN  /\ out[Len(out)] = "ok" /\ exitCode = 0
            /\ IF monthly.kind = "number" /\ monthly.val > 0
               THEN total.kind = "number" =>
                      /\ shown.percent # << >>
                      /\ Len(shown.bar) = 1
                      /\ shown.bar[1].filled + shown.bar[1].empty = 30
                      /\ shown.bar[1].filled =
                             Min(30, Max(0, (30 * total.val) \div (monthly.val * 10)))
                      /\ total.val >= monthly.val * 10 => shown.bar[1].filled = 30
                      /\ 30 * total.val < monthly.val * 10 => shown.bar[1].filled = 0
               ELSE shown.percent = << >> /\ shown.bar = << >>

\* usage of one and a half times the limit was shown with all 30 cells filled
C30_OverLimitFull ==
    /\ TrafficShown
    /\ shown.data = [total10 |-> JsonNum(15000), monthly |-> JsonNum(1000)]
    /\ shown.bar = << [filled |-> 30, empty |-> 0] >>

====
